---- MODULE Spec2Model ----
(***************************************************************************)
(* The two recursive-descent validators of CPP_Parser, new_parse.py and    *)
(* cpp_parser.py, as one state machine.                                    *)
(*                                                                         *)
(* A token file is chosen; new_parse.parse_cpp_tokens runs on it to its    *)
(* end (record np), then cpp_parser.parse_cpp_tokens runs on the same file *)
(* (record cp).  Each record holds the Parser instance (tokens, pos,       *)
(* errors, has_main) and the Python call stack of the run.  A frame is     *)
(* [fn, pc, has_datatype]; pc is the source line about to be executed.     *)
(* One step runs the tests at pc, then at most one change of the Parser    *)
(* (one advance, one consume/expect, one append, or an append with the     *)
(* advance that follows it on the next line), then the transfer of         *)
(* control: a call (push), a return (pop) or a move to another line.       *)
(***************************************************************************)
EXTENDS Integers, Sequences, FiniteSets, TLC

VARIABLES file, np, cp

vars == <<file, np, cp>>

(***************************************************************************)
(* Bounds of the model.                                                    *)
(***************************************************************************)
\* Length of the arbitrary token run placed in each context (see Streams).
MaxGarbage == 2

\* The interpreter's limit on nested calls (sys.getrecursionlimit(), 1000 in
\* CPython), scaled to the streams of the model: a call that would make the
\* stack deeper raises RecursionError.
RecursionLimit == 40

(***************************************************************************)
(* Tokens.                                                                 *)
(***************************************************************************)
Token(token_type, value) == [type |-> token_type, value |-> value]

\* Python's None where a token is expected (current(), peek()).
None == [type |-> "<None>", value |-> "<None>"]

\* An omitted filter or message argument (None, and like '' falsy in Python).
Omitted == ""

Datatypes == {"int", "float", "double", "char"}

SPECIAL == "SPECIAL CHARACTER"

\* One entry of Parser.errors: the message text (the format string, with the
\* values it interpolates kept in at, tok and want), the cursor when it was
\* appended, the current token then, and the filter that was asked for.
Diag(p, msg, want) ==
    [msg |-> msg, at |-> p.pos,
     tok |-> IF p.pos < Len(p.tokens) THEN p.tokens[p.pos + 1] ELSE None,
     want |-> want]

NoWant == Token(Omitted, Omitted)

(***************************************************************************)
(* The call stack.                                                         *)
(***************************************************************************)
Frame(fn, pc) == [fn |-> fn, pc |-> pc, has_datatype |-> FALSE]

Top(p) == p.stack[Len(p.stack)]

At(p, fn) == p.stack # <<>> /\ Top(p).fn = fn

Goto(p, pc) == [p EXCEPT !.stack[Len(p.stack)].pc = pc]

\* The pc of a frame whose last statement was a call: nothing is left but to
\* return None.
End == 0

\* The pc of Parser.parse's frame inside its except clause.
Except == -1

\* raise: unwind to the try of Parser.parse, the second frame of every run.
Raise(p) ==
    [p EXCEPT !.stack = <<p.stack[1], [p.stack[2] EXCEPT !.pc = Except]>>]

\* self.fn(): the caller resumes at line pc when fn returns.
Call(p, fn, pc) ==
    IF Len(p.stack) + 1 > RecursionLimit
    THEN Raise(p)
    ELSE [p EXCEPT !.stack = Append(Goto(p, pc).stack, Frame(fn, 1))]

\* return v
Return(p, v) ==
    [p EXCEPT !.stack = SubSeq(p.stack, 1, Len(p.stack) - 1), !.ret = v]

\* return (None: falsy, and read by no caller)
ReturnNone(p) == Return(p, FALSE)

(***************************************************************************)
(* new_parse.py: token navigation.                                         *)
(***************************************************************************)
current(p) == IF p.pos < Len(p.tokens) THEN p.tokens[p.pos + 1] ELSE None

peek(p, offset) ==
    LET idx == p.pos + offset
    IN  IF idx < Len(p.tokens) THEN p.tokens[idx + 1] ELSE None

advance(p) == [p EXCEPT !.pos = @ + 1]

match(p, token_type, value) ==
    LET tok == current(p)
    IN  IF tok = None THEN FALSE
        ELSE IF token_type # Omitted /\ tok.type # token_type THEN FALSE
        ELSE IF value # Omitted /\ tok.value # value THEN FALSE
        ELSE TRUE

consume_advancing_on_failure(p, token_type, value, error_msg) ==
    [p |-> advance(IF match(p, token_type, value) THEN p
                   ELSE [p EXCEPT !.errors =
                            Append(@, Diag(p, "Unexpected token: {tok.type} '{tok.value}'",
                                           Token(token_type, value)))]),
     ok |-> match(p, token_type, value)]

\* consume returns the pair (parser after the call, returned boolean).
consume(p, token_type, value, error_msg) ==
    IF match(p, token_type, value)
    THEN [p |-> advance(p), ok |-> TRUE]
    ELSE LET tok == current(p)
             msg == IF error_msg # Omitted THEN error_msg
                    ELSE IF tok = None THEN "Unexpected end of file"
                    ELSE IF token_type # Omitted /\ value # Omitted
                         THEN "Expected {token_type} '{value}', got {tok.type} '{tok.value}'"
                    ELSE IF token_type # Omitted
                         THEN "Expected {token_type}, got {tok.type}"
                    ELSE "Unexpected token: {tok.type} '{tok.value}'"
         IN  [p |-> [p EXCEPT !.errors =
                        Append(@, Diag(p, msg, Token(token_type, value)))],
              ok |-> FALSE]

\* self.errors.insert(0, msg) in the place of append: the newest diagnostic
\* comes first.
append_at_front(p, msg) == [p EXCEPT !.errors = <<Diag(p, msg, NoWant)>> \o @]

\* self.errors.append(msg)
append(p, msg) == [p EXCEPT !.errors = Append(@, Diag(p, msg, NoWant))]

\* The lookahead of parse_global_declaration and parse_statement.
peek2_is_paren(p) ==
    /\ peek(p, 2) # None
    /\ peek(p, 2).type = SPECIAL
    /\ peek(p, 2).value = "("

(***************************************************************************)
(* The token file.  A line is a sequence of pieces of text: each of the    *)
(* characters "<", ">", "," and " " is a piece of its own wherever one     *)
(* occurs, and every other piece is a run of text holding none of "<", ">" *)
(* and "," and neither starting nor ending with a blank.                   *)
(***************************************************************************)
RECURSIVE strip(_)
\* str.strip()
strip(line) ==
    IF line = <<>> THEN line
    ELSE IF Head(line) = " " THEN strip(Tail(line))
    ELSE IF line[Len(line)] = " " THEN strip(SubSeq(line, 1, Len(line) - 1))
    ELSE line

startswith(line, c) == line # <<>> /\ Head(line) = c

endswith(line, c) == line # <<>> /\ line[Len(line)] = c

RECURSIVE join(_)
\* The text of a sequence of pieces.
join(line) == IF line = <<>> THEN "" ELSE Head(line) \o join(Tail(line))

\* str.split(',', 1): one part when there is no comma, else the text before
\* the first comma and the text after it.
split(content) ==
    LET commas == {i \in 1..Len(content) : content[i] = ","}
    IN  IF commas = {} THEN <<content>>
        ELSE LET i == CHOOSE j \in commas : \A k \in commas : j <= k
             IN  <<SubSeq(content, 1, i - 1), SubSeq(content, i + 1, Len(content))>>

RECURSIVE read_lines(_, _)
\* The loop of new_parse.read_tokens_from_file over the lines left, tokens
\* being the list so far: the token list, or raised when the two-name
\* unpacking of line 18 fails (ValueError).
read_lines(lines, tokens) ==
    IF lines = <<>> THEN [raised |-> FALSE, tokens |-> tokens]
    ELSE LET line == strip(Head(lines))
         IN  IF startswith(line, "<") /\ endswith(line, ">")
             THEN LET content == SubSeq(line, 2, Len(line) - 1)
                      parts == split(content)
                  IN  IF Len(parts) # 2
                      THEN [raised |-> TRUE, tokens |-> <<>>]
                      ELSE read_lines(Tail(lines),
                                      Append(tokens, Token(join(strip(parts[1])),
                                                           join(strip(parts[2])))))
             ELSE read_lines(Tail(lines), tokens)

read_tokens_from_file(lines) == read_lines(lines, <<>>)

(***************************************************************************)
(* The token files of the model.  A stream is written as its lexemes; the  *)
(* kind of each is the one a lexer gives it.                               *)
(***************************************************************************)
Keywords == {"int", "if", "else", "while", "for", "return"}

Identifiers == {"main", "f", "x", "y"}

Operators == {"=", "||", "&&", "==", "<", "+", "*", "!", "++"}

Specials == {"(", ")", "{", "}", "[", "]", ",", ";"}

KindOf(l) ==
    IF l \in Keywords THEN "KEYWORD"
    ELSE IF l \in Identifiers THEN "IDENTIFIER"
    ELSE IF l \in Operators THEN "OPERATOR"
    ELSE IF l \in Specials THEN SPECIAL
    ELSE IF l = "1" THEN "NUMBER"
    ELSE "STRING"

Toks(ls) == [i \in 1..Len(ls) |-> Token(KindOf(ls[i]), ls[i])]

\* The pieces of a lexeme, and the line <KIND, LEXEME> of a token.
Pieces(l) ==
    CASE l = "||" -> <<"||">>
      [] l = "<" -> <<"<">>
      [] l = "," -> <<",">>
      [] OTHER -> <<l>>

Line(t) == <<"<", t.type, ",", " ">> \o Pieces(t.value) \o <<">">>

Render(ls) == [i \in 1..Len(ls) |-> Line(Toks(ls)[i])]

\* Expressions of the ladder of section 4.3.
Atom == {<<"x">>, <<"1">>}

BinOps == {"||", "&&", "==", "<", "+", "*"}

Expr ==
    Atom
    \cup {a \o <<o>> \o b : a \in Atom, b \in Atom, o \in BinOps}
    \cup {<<"1", "+", "1", "*", "1">>, <<"1", "<", "1", "&&", "1", "<", "1">>,
          <<"x", "||", "x", "&&", "x", "==", "1">>}
    \cup {<<"!", "x">>, <<"+", "x">>, <<"++", "x">>, <<"!", "!", "x">>}
    \cup {<<"x", "++">>, <<"x", "[", "1", "]">>, <<"x", "(", ")">>,
          <<"x", "(", "1", ")">>, <<"x", "(", "1", ",", "x", ")">>,
          <<"x", "(", ")", "[", "1", "]", "++">>}
    \cup {<<"(", "x", ")">>, <<"(", "1", "+", "x", ")", "*", "x">>,
          <<"(", "(", "x", ")", ")">>, <<"\"s\"">>}

Cond == {<<"x">>, <<"x", "<", "1">>}

\* Declarations: datatype IDENT [= expression] (, IDENT [= expression])* ;
Decl ==
    {<<"int", "x", ";">>, <<"int", "x", "=", "1", ";">>,
     <<"int", "x", ",", "y", ";">>, <<"int", "x", ",", "y", "=", "1", ";">>,
     <<"int", "x", "=", "1", ",", "y", ";">>,
     <<"int", "x", "=", "1", ",", "y", "=", "1", ";">>}

Simple ==
    {<<"return">> \o e \o <<";">> : e \in Expr}
    \cup {<<"return", ";">>}
    \cup {<<"x", "=">> \o e \o <<";">> : e \in Cond}
    \cup {e \o <<";">> : e \in {<<"x">>, <<"x", "(", "1", ")">>, <<"x", "++">>}}
    \cup Decl

Body ==
    {<<"x", "=", "1", ";">>, <<"{", "}">>, <<"{", "x", "=", "1", ";", "}">>,
     <<"return", ";">>}

IfStmt ==
    {<<"if", "(">> \o c \o <<")">> \o b : c \in Cond, b \in Body}
    \cup {<<"if", "(", "x", ")">> \o b \o <<"else">> \o c : b \in Body, c \in Body}
    \cup {<<"if", "(", "x", ")", "if", "(", "x", ")", "x", "=", "1", ";",
            "else", "x", "=", "1", ";">>}

WhileStmt == {<<"while", "(">> \o c \o <<")">> \o b : c \in Cond, b \in Body}

ForInit == {<<";">>, <<"int", "x", "=", "1", ";">>, <<"x", ";">>}

ForStmt ==
    {<<"for", "(">> \o i \o c \o <<";">> \o u \o <<")">> \o b :
        i \in ForInit, c \in {<<>>, <<"x", "<", "1">>},
        u \in {<<>>, <<"x", "++">>}, b \in {<<"x", "=", "1", ";">>, <<"{", "}">>}}

\* A function-shaped declaration inside a block, and a keyword as its name.
NestedFn == {<<"int", "f", "(", ")", "{", "}">>, <<"int", "if", "(", ")", "{", "}">>}

Statement == Simple \cup IfStmt \cup WhileStmt \cup ForStmt \cup NestedFn

Function(name, b) == <<"int", name, "(", ")", "{">> \o b \o <<"}">>

Global ==
    {<<"int", "x", ";">>, <<"int", "x", "=", "1", ",", "y", ";">>,
     <<"int", "x", ",", "y", "=", "1", "+", "1", ";">>}

\* The well-formed programs whose one top-level function is called name.
Program(name) ==
    {Function(name, b) : b \in Statement \cup {<<>>}}
    \cup {Function(name, <<"int", "x", ";", "x", "=", "1", ";", "return", "x", ";">>)}
    \cup {g \o Function(name, <<"return", "1", ";">>) : g \in Global}
    \cup {Function(name, <<>>) \o g : g \in Global}
    \cup {Function("f", <<>>) \o Function(name, <<>>)}

WithMain ==
    Program("main")
    \cup {Function("f", Function("main", <<>>)),
          Function("main", <<>>) \o Function("main", <<>>),
          Function("main", <<>>) \o Function("f", <<"return", "1", ";">>)}

NoMain == Program("f") \cup Global \cup {<<"int", "main", ";">>}

WellFormed == WithMain \cup NoMain

\* Streams cut short: every proper prefix of these programs.
Cut ==
    {Function("main", <<"if", "(", "x", ")", "{", "x", "=", "1", ";", "}">>),
     Function("main", <<"return", "x", "(", "1", ")", ";">>),
     Function("main", <<"for", "(", "int", "x", "=", "1", ";", "x", "<", "1", ";",
                        "x", "++", ")", "{", "}">>),
     Function("main", <<"int", "x", ",", "y", "=", "1", ";", "x", "[", "1", "]", ";">>),
     Function("f", <<"while", "(", "x", ")", "x", "=", "1", ";">>),
     <<"int", "x", "=", "1", ";">>}

Prefixes == UNION {{SubSeq(s, 1, n) : n \in 1..(Len(s) - 1)} : s \in Cut}

\* Arbitrary runs of tokens, alone and inside a function, a return, the
\* condition of an if, the head of a for, a declaration and two parentheses.
GarbageTokens == {"int", "x", "1", "=", "+", "(", ")", "{", "}", ";", ","}

RECURSIVE Runs(_)
Runs(n) ==
    IF n = 0 THEN {<<>>}
    ELSE Runs(n - 1) \cup {Append(r, l) : r \in Runs(n - 1), l \in GarbageTokens}

Context ==
    {<< <<>>, <<>> >>,
     << <<"int", "main", "(", ")", "{">>, <<"}">> >>,
     << <<"int", "main", "(", ")", "{", "return">>, <<";", "}">> >>,
     << <<"int", "main", "(", ")", "{", "if", "(">>, <<")", "x", ";", "}">> >>,
     << <<"int", "main", "(", ")", "{", "for", "(">>, <<")", "x", ";", "}">> >>,
     << <<"int", "main", "(", ")", "{", "int", "x">>, <<";", "}">> >>,
     << <<"int", "main", "(", ")", "{", "return", "(", "(">>,
        <<")", ")", ";", "}">> >>}

Garbage == {c[1] \o r \o c[2] : c \in Context, r \in Runs(MaxGarbage)}

\* Function-shaped constructs whose name is no identifier and no keyword,
\* before and after main and inside its block.
OddNames ==
    UNION {{Function(n, <<>>) \o Function("main", <<>>),
            Function("main", <<>>) \o Function(n, <<"return", "1", ";">>),
            Function("main", Function(n, <<>>))} : n \in {"1", "\"s\"", "+", ";"}}

\* Sequences that start with a datatype and are not of the shape of Decl.
NotDecl ==
    {<<"int", "x", "y", ";">>, <<"int", "x", "=", ";">>, <<"int", ",", "x", ";">>,
     <<"int", "x", ",", ";">>, <<"int", "x", "=", "1", ",", ";">>,
     <<"int", "1", ";">>, <<"int", "x", "=", "1", "y", ";">>}

\* Each of them, and each declaration, before main and inside its block.
AtTopLevel == {d \o Function("main", <<>>) : d \in Decl \cup NotDecl}

InBlock == {Function("main", d) : d \in Decl \cup NotDecl}

\* Control statements with no body before the brace that closes the block,
\* and with a token that starts no statement in the place of the body.
NoBody ==
    {<<"if", "(", "x", ")">>, <<"while", "(", "x", ")">>,
     <<"for", "(", "x", ";", "x", ";", "x", ")">>,
     <<"if", "(", "x", ")", "x", ";", "else">>}

BodyLess ==
    {Function("main", h) : h \in NoBody}
    \cup {Function("main", h \o <<l>>) : h \in NoBody, l \in {")", "1", ";"}}

Streams ==
    WellFormed \cup Prefixes \cup Garbage
    \cup OddNames \cup AtTopLevel \cup InBlock \cup BodyLess

\* Lines that are not of the shape <KIND, LEXEME>: no "<", no ">", neither,
\* and bracketed without a comma.
BadLines ==
    {<<"KEYWORD", ",", " ", "int", ">">>, <<"<", "KEYWORD", ",", " ", "int">>,
     <<"int">>, <<"<", "int", ">">>, <<" ", "<", ">", " ">>}

\* Blank lines.
BlankLines == {<<>>, <<" ">>}

InsertAt(lines, i, line) ==
    SubSeq(lines, 1, i) \o <<line>> \o SubSeq(lines, i + 1, Len(lines))

Seeds == {<<>>, <<"int", "x", ";">>, Function("main", <<>>)}

Files ==
    {Render(s) : s \in Streams}
    \cup UNION {{InsertAt(Render(s), i, b) :
                    i \in 0..Len(s), b \in BadLines \cup BlankLines} : s \in Seeds}

\* A diagnostic of parse_cpp_tokens itself, which has no Parser.
Message(msg) == [msg |-> msg, at |-> 0, tok |-> None, want |-> NoWant]

\* The state of a run before parse_cpp_tokens is called; tokens, pos, errors
\* and has_main are as Parser.__init__ sets them.
Parser(tokens) ==
    [tokens |-> tokens, pos |-> 0, errors |-> <<>>, has_main |-> FALSE,
     stack |-> <<Frame("parse_cpp_tokens", 1)>>, ret |-> FALSE,
     out |-> [is_valid |-> FALSE, errors |-> <<>>]]

\* return is_valid, errors from parse_cpp_tokens: the run is over.
Finish(p, is_valid, errors) ==
    [p EXCEPT !.stack = <<>>, !.out = [is_valid |-> is_valid, errors |-> errors]]

Done(p) == p.stack = <<>>

\* read_tokens_from_file on each file of the model (and on no file at all),
\* evaluated once.
tokens_read == [f \in Files \cup {<<>>} |-> read_tokens_from_file(f)]

parse_cpp_tokens ==
    /\ At(np, "parse_cpp_tokens")
    /\ np' = CASE Top(np).pc = 1 ->
                    LET r == tokens_read[file.lines]
                    IN  IF ~file.exists
                        THEN Finish(np, FALSE, <<Message("File not found: {filename}")>>)
                        ELSE IF r.raised
                        THEN Finish(np, FALSE, <<Message("Error: {str(e)}")>>)
                        ELSE IF r.tokens = <<>>
                        THEN Finish(np, FALSE, <<Message("No tokens found in file")>>)
                        ELSE Call(Parser(r.tokens), "parse", 409)
               [] Top(np).pc = 409 -> Finish(np, np.ret, np.errors)
    /\ UNCHANGED <<file, cp>>

(***************************************************************************)
(* new_parse.py: Parser.parse and the top level.                           *)
(***************************************************************************)
\* parse without the test of has_main: the list alone decides.
parse_without_main_test ==
    /\ At(np, "parse")
    /\ np' = CASE Top(np).pc = 1 ->
                    IF current(np) # None
                    THEN Call(np, "parse_global_declaration", 1)
                    ELSE Return(np, Len(np.errors) = 0)
               [] Top(np).pc = Except ->
                    Return(append(np, "Parser exception: {str(e)}"), FALSE)
    /\ UNCHANGED <<file, cp>>

parse ==
    /\ At(np, "parse")
    /\ np' = CASE Top(np).pc = 1 ->
                    IF current(np) # None
                    THEN Call(np, "parse_global_declaration", 1)
                    ELSE LET q == IF ~np.has_main
                                  THEN append(np, "Missing main function")
                                  ELSE np
                         IN  Return(q, Len(q.errors) = 0)
               [] Top(np).pc = Except ->
                    Return(append(np, "Parser exception: {str(e)}"), FALSE)
    /\ UNCHANGED <<file, cp>>

\* Lines 98-100: the token that starts no global declaration is reported
\* and skipped.
skip_invalid_token(p) ==
    ReturnNone(advance(append(p, "Expected datatype for global declaration")))

parse_global_declaration ==
    /\ At(np, "parse_global_declaration")
    /\ np' = CASE Top(np).pc = 1 ->
                    IF ~match(np, "KEYWORD", Omitted)
                       \/ current(np).value \notin Datatypes
                    THEN skip_invalid_token(np)
                    ELSE IF peek2_is_paren(np)
                    THEN Call(np, "parse_function", End)
                    ELSE Call(np, "parse_global_variable", End)
               [] Top(np).pc = End -> ReturnNone(np)
    /\ UNCHANGED <<file, cp>>

parse_global_variable ==
    /\ At(np, "parse_global_variable")
    /\ LET loop(p) ==     \* lines 119-126
               IF match(p, SPECIAL, ",")
               THEN Goto(advance(p), 121)
               ELSE ReturnNone(consume(p, SPECIAL, ";", Omitted).p)
           init(p) ==     \* lines 114-116 and 122-124
               IF match(p, "OPERATOR", "=")
               THEN Call(advance(p), "parse_expression", 119)
               ELSE loop(p)
       IN  np' = CASE Top(np).pc = 1 -> Goto(advance(np), 111)
                 [] Top(np).pc = 111 ->
                      Goto(consume(np, "IDENTIFIER", Omitted, Omitted).p, 114)
                 [] Top(np).pc = 114 -> init(np)
                 [] Top(np).pc = 119 -> loop(np)
                 [] Top(np).pc = 121 ->
                      Goto(consume(np, "IDENTIFIER", Omitted, Omitted).p, 122)
                 [] Top(np).pc = 122 -> init(np)
    /\ UNCHANGED <<file, cp>>

set_has_main_from_last_name(p) ==
    [p EXCEPT !.has_main = current(p) # None /\ current(p).value = "main"]

\* Lines 132-134: the name is looked at, not consumed.
set_has_main(p) ==
    LET tok == current(p)
    IN  IF tok # None /\ tok.value = "main"
        THEN [p EXCEPT !.has_main = TRUE]
        ELSE p

parse_function ==
    /\ At(np, "parse_function")
    /\ np' = CASE Top(np).pc = 1 -> Goto(advance(np), 132)
               [] Top(np).pc = 132 -> Goto(set_has_main(np), 136)
               [] Top(np).pc = 136 ->
                    Goto(consume(np, Omitted, Omitted, Omitted).p, 137)
               [] Top(np).pc = 137 ->
                    Goto(consume(np, SPECIAL, "(", Omitted).p, 138)
               [] Top(np).pc = 138 ->
                    Call(consume(np, SPECIAL, ")", Omitted).p, "parse_block", End)
               [] Top(np).pc = End -> ReturnNone(np)
    /\ UNCHANGED <<file, cp>>

(***************************************************************************)
(* new_parse.py: statements.                                               *)
(***************************************************************************)
parse_block ==
    /\ At(np, "parse_block")
    /\ np' = CASE Top(np).pc = 1 ->
                    Goto(consume(np, SPECIAL, "{", Omitted).p, 147)
               [] Top(np).pc = 147 ->
                    IF ~match(np, SPECIAL, "}")
                    THEN IF current(np) = None
                         THEN ReturnNone(append(np, "Expected '}' to close block"))
                         ELSE Call(np, "parse_statement", 147)
                    ELSE ReturnNone(consume(np, SPECIAL, "}", Omitted).p)
    /\ UNCHANGED <<file, cp>>

\* The body of if, else, while and for: a block or one statement.
body(p, pc) ==
    IF match(p, SPECIAL, "{")
    THEN Call(p, "parse_block", pc)
    ELSE Call(p, "parse_statement", pc)

\* The same fallback without its advance.
invalid_statement_left_in_place(p) ==
    ReturnNone(append(p, "Invalid statement starting with {tok.type} '{tok.value}'"))

\* Lines 186-188: the token that starts no statement is reported and skipped.
invalid_statement(p) ==
    ReturnNone(advance(
        append(p, "Invalid statement starting with {tok.type} '{tok.value}'")))

parse_statement ==
    /\ At(np, "parse_statement")
    /\ np' = CASE Top(np).pc = 1 ->
                 LET tok == current(np)
                 IN  IF tok = None THEN ReturnNone(np)
                     ELSE IF tok.type = "KEYWORD" /\ tok.value \in Datatypes
                     THEN IF peek2_is_paren(np)
                          THEN Call(np, "parse_function", End)
                          ELSE Call(np, "parse_assignment", End)
                     ELSE IF tok.type = "KEYWORD" /\ tok.value = "if"
                     THEN Call(np, "parse_if_statement", End)
                     ELSE IF tok.type = "KEYWORD" /\ tok.value = "while"
                     THEN Call(np, "parse_while_statement", End)
                     ELSE IF tok.type = "KEYWORD" /\ tok.value = "for"
                     THEN Call(np, "parse_for_statement", End)
                     ELSE IF tok.type = "KEYWORD" /\ tok.value = "return"
                     THEN Call(np, "parse_return_statement", End)
                     ELSE IF tok.type = "IDENTIFIER"
                     THEN IF /\ peek(np, 1) # None
                             /\ peek(np, 1).type = "OPERATOR"
                             /\ peek(np, 1).value = "="
                          THEN Call(np, "parse_assignment", End)
                          ELSE Call(np, "parse_expression", 184)
                     ELSE invalid_statement(np)
               [] Top(np).pc = 184 ->
                    ReturnNone(consume(np, SPECIAL, ";", Omitted).p)
               [] Top(np).pc = End -> ReturnNone(np)
    /\ UNCHANGED <<file, cp>>

parse_assignment ==
    /\ At(np, "parse_assignment")
    /\ LET ident(p, pc) == Goto(consume(p, "IDENTIFIER", Omitted, Omitted).p, pc)
           assign(p) ==   \* lines 211-215
               IF match(p, "OPERATOR", "=")
               THEN Call(advance(p), "parse_expression", 215)
               ELSE ReturnNone(consume(p, SPECIAL, ";", Omitted).p)
           loop(p) ==     \* lines 202-203, then 211
               IF Top(p).has_datatype /\ match(p, SPECIAL, ",")
               THEN Goto(advance(p), 205)
               ELSE assign(p)
       IN  np' = CASE Top(np).pc = 1 ->
                      IF match(np, "KEYWORD", Omitted)
                         /\ current(np).value \in Datatypes
                      THEN Goto([advance(np) EXCEPT
                                   !.stack[Len(np.stack)].has_datatype = TRUE], 199)
                      ELSE ident(np, 202)
                 [] Top(np).pc = 199 -> ident(np, 202)
                 [] Top(np).pc = 202 -> loop(np)
                 [] Top(np).pc = 205 -> ident(np, 206)
                 [] Top(np).pc = 206 ->
                      IF match(np, "OPERATOR", "=")
                      THEN Call(advance(np), "parse_expression", 202)
                      ELSE loop(np)
                 [] Top(np).pc = 215 ->
                      ReturnNone(consume(np, SPECIAL, ";", Omitted).p)
    /\ UNCHANGED <<file, cp>>

parse_if_statement ==
    /\ At(np, "parse_if_statement")
    /\ np' = CASE Top(np).pc = 1 -> Goto(advance(np), 220)
               [] Top(np).pc = 220 ->
                    Call(consume(np, SPECIAL, "(", Omitted).p, "parse_expression", 222)
               [] Top(np).pc = 222 ->
                    body(consume(np, SPECIAL, ")", Omitted).p, 231)
               [] Top(np).pc = 231 ->
                    IF match(np, "KEYWORD", "else")
                    THEN body(advance(np), End)
                    ELSE ReturnNone(np)
               [] Top(np).pc = End -> ReturnNone(np)
    /\ UNCHANGED <<file, cp>>

parse_while_statement ==
    /\ At(np, "parse_while_statement")
    /\ np' = CASE Top(np).pc = 1 -> Goto(advance(np), 241)
               [] Top(np).pc = 241 ->
                    Call(consume(np, SPECIAL, "(", Omitted).p, "parse_expression", 243)
               [] Top(np).pc = 243 ->
                    body(consume(np, SPECIAL, ")", Omitted).p, End)
               [] Top(np).pc = End -> ReturnNone(np)
    /\ UNCHANGED <<file, cp>>

parse_for_statement ==
    /\ At(np, "parse_for_statement")
    /\ LET update(p) ==   \* lines 267-271
               LET q == consume(p, SPECIAL, ";", Omitted).p
               IN  IF ~match(q, SPECIAL, ")")
                   THEN Call(q, "parse_expression", 273)
                   ELSE Goto(q, 273)
       IN  np' = CASE Top(np).pc = 1 -> Goto(advance(np), 253)
                 [] Top(np).pc = 253 ->
                      LET q == consume(np, SPECIAL, "(", Omitted).p
                      IN  IF match(q, "KEYWORD", Omitted)
                          THEN Call(q, "parse_assignment", 265)
                          ELSE IF ~match(q, SPECIAL, ";")
                          THEN Call(q, "parse_expression", 260)
                          ELSE Goto(q, 262)
                 [] Top(np).pc = 260 ->
                      Goto(consume(np, SPECIAL, ";", Omitted).p, 265)
                 [] Top(np).pc = 262 ->
                      Goto(consume(np, SPECIAL, ";", Omitted).p, 265)
                 [] Top(np).pc = 265 ->
                      IF ~match(np, SPECIAL, ";")
                      THEN Call(np, "parse_expression", 267)
                      ELSE update(np)
                 [] Top(np).pc = 267 -> update(np)
                 [] Top(np).pc = 273 ->
                      body(consume(np, SPECIAL, ")", Omitted).p, End)
                 [] Top(np).pc = End -> ReturnNone(np)
    /\ UNCHANGED <<file, cp>>

parse_return_statement ==
    /\ At(np, "parse_return_statement")
    /\ np' = CASE Top(np).pc = 1 ->
                    LET q == advance(np)
                    IN  IF ~match(q, SPECIAL, ";")
                        THEN Call(q, "parse_expression", 287)
                        ELSE Goto(q, 287)
               [] Top(np).pc = 287 ->
                    ReturnNone(consume(np, SPECIAL, ";", Omitted).p)
    /\ UNCHANGED <<file, cp>>

(***************************************************************************)
(* new_parse.py: expressions.                                              *)
(***************************************************************************)
\* One level of the ladder: operand (operator operand)*.  pc 1 is the first
\* operand, pc 2 the while test.
binary(p, operand, operators) ==
    CASE Top(p).pc = 1 -> Call(p, operand, 2)
      [] Top(p).pc = 2 ->
           IF match(p, "OPERATOR", Omitted) /\ current(p).value \in operators
           THEN Call(advance(p), operand, 2)
           ELSE ReturnNone(p)

parse_expression ==
    /\ At(np, "parse_expression")
    /\ np' = CASE Top(np).pc = 1 -> Call(np, "parse_logical_or", End)
               [] Top(np).pc = End -> ReturnNone(np)
    /\ UNCHANGED <<file, cp>>

parse_logical_or ==
    /\ At(np, "parse_logical_or")
    /\ np' = binary(np, "parse_logical_and", {"||"})
    /\ UNCHANGED <<file, cp>>

parse_logical_and ==
    /\ At(np, "parse_logical_and")
    /\ np' = binary(np, "parse_equality", {"&&"})
    /\ UNCHANGED <<file, cp>>

parse_equality ==
    /\ At(np, "parse_equality")
    /\ np' = binary(np, "parse_relational", {"==", "!="})
    /\ UNCHANGED <<file, cp>>

parse_relational ==
    /\ At(np, "parse_relational")
    /\ np' = binary(np, "parse_additive", {"<", ">", "<=", ">="})
    /\ UNCHANGED <<file, cp>>

parse_additive ==
    /\ At(np, "parse_additive")
    /\ np' = binary(np, "parse_multiplicative", {"+", "-"})
    /\ UNCHANGED <<file, cp>>

parse_multiplicative ==
    /\ At(np, "parse_multiplicative")
    /\ np' = binary(np, "parse_unary", {"*", "/", "%"})
    /\ UNCHANGED <<file, cp>>

parse_unary ==
    /\ At(np, "parse_unary")
    /\ np' = CASE Top(np).pc = 1 ->
                    IF match(np, "OPERATOR", Omitted)
                       /\ current(np).value \in {"+", "-", "++", "--", "!"}
                    THEN Call(advance(np), "parse_unary", End)
                    ELSE Call(np, "parse_postfix", End)
               [] Top(np).pc = End -> ReturnNone(np)
    /\ UNCHANGED <<file, cp>>

postfix_operator_left_in_place(p) == Goto(p, 349)

\* Lines 364-365: a postfix ++ or -- is consumed and the loop goes on.
postfix_operator(p) == Goto(advance(p), 349)

parse_postfix ==
    /\ At(np, "parse_postfix")
    /\ np' = CASE Top(np).pc = 1 -> Call(np, "parse_primary", 349)
               [] Top(np).pc = 349 ->
                    IF current(np) = None THEN ReturnNone(np)
                    ELSE IF match(np, SPECIAL, "[")
                    THEN Call(advance(np), "parse_expression", 354)
                    ELSE IF match(np, SPECIAL, "(")
                    THEN Call(advance(np), "parse_argument_list", 360)
                    ELSE IF match(np, "OPERATOR", Omitted)
                            /\ current(np).value \in {"++", "--"}
                    THEN postfix_operator(np)
                    ELSE ReturnNone(np)
               [] Top(np).pc = 354 ->
                    Goto(consume(np, SPECIAL, "]", Omitted).p, 349)
               [] Top(np).pc = 360 ->
                    Goto(consume(np, SPECIAL, ")", Omitted).p, 349)
    /\ UNCHANGED <<file, cp>>

parse_argument_list ==
    /\ At(np, "parse_argument_list")
    /\ np' = CASE Top(np).pc = 1 ->
                    IF match(np, SPECIAL, ")")
                    THEN ReturnNone(np)
                    ELSE Call(np, "parse_expression", 375)
               [] Top(np).pc = 375 ->
                    IF match(np, SPECIAL, ",")
                    THEN Call(advance(np), "parse_expression", 375)
                    ELSE ReturnNone(np)
    /\ UNCHANGED <<file, cp>>

\* Lines 393-395: the token that starts no primary expression is reported
\* and skipped.
unexpected_token_in_expression(p) ==
    ReturnNone(advance(
        append(p, "Unexpected token in expression: {tok.type} '{tok.value}'")))

parse_primary ==
    /\ At(np, "parse_primary")
    /\ np' = CASE Top(np).pc = 1 ->
                 LET tok == current(np)
                 IN  IF tok = None
                     THEN ReturnNone(append(np, "Unexpected end of file in expression"))
                     ELSE IF tok.type \in {"IDENTIFIER", "NUMBER", "STRING"}
                     THEN ReturnNone(advance(np))
                     ELSE IF match(np, SPECIAL, "(")
                     THEN Call(advance(np), "parse_expression", 392)
                     ELSE unexpected_token_in_expression(np)
               [] Top(np).pc = 392 ->
                    ReturnNone(consume(np, SPECIAL, ")", Omitted).p)
    /\ UNCHANGED <<file, cp>>

(***************************************************************************)
(* cpp_parser.py: the reader, token navigation and the entry points.       *)
(***************************************************************************)
RECURSIVE cpp_read_lines(_, _)
\* The loop of cpp_parser.read_tokens_from_file: a bracketed line without a
\* comma is passed over (line 22).
cpp_read_lines(lines, tokens) ==
    IF lines = <<>> THEN [raised |-> FALSE, tokens |-> tokens]
    ELSE LET line == strip(Head(lines))
         IN  IF line = <<>> THEN cpp_read_lines(Tail(lines), tokens)
             ELSE IF startswith(line, "<") /\ endswith(line, ">")
             THEN LET content == SubSeq(line, 2, Len(line) - 1)
                      parts == split(content)
                  IN  IF Len(parts) = 2
                      THEN cpp_read_lines(Tail(lines),
                               Append(tokens, Token(join(strip(parts[1])),
                                                    join(strip(parts[2])))))
                      ELSE cpp_read_lines(Tail(lines), tokens)
             ELSE cpp_read_lines(Tail(lines), tokens)

cpp_read_tokens_from_file(lines) == cpp_read_lines(lines, <<>>)

\* cpp_parser.read_tokens_from_file on each file of the model, evaluated once.
cpp_tokens_read == [f \in Files \cup {<<>>} |-> cpp_read_tokens_from_file(f)]

current_token(p) == IF p.pos < Len(p.tokens) THEN p.tokens[p.pos + 1] ELSE None

peek_token(p, offset) ==
    IF p.pos + offset < Len(p.tokens) THEN p.tokens[p.pos + offset + 1] ELSE None

\* add_error that records nothing: a rule that fails leaves no trace.
add_error_dropped(p, message) == p

add_error(p, message) == [p EXCEPT !.errors = Append(@, Diag(p, message, NoWant))]

\* self.pos += 1
step(p) == [p EXCEPT !.pos = @ + 1]

expect_without_diagnostic(p, expected_type, expected_value, error_msg) ==
    LET token == current_token(p)
    IN  IF token = None THEN [p |-> p, ok |-> FALSE]
        ELSE IF expected_type # Omitted /\ token.type # expected_type
        THEN [p |-> p, ok |-> FALSE]
        ELSE IF expected_value # Omitted /\ token.value # expected_value
        THEN [p |-> p, ok |-> FALSE]
        ELSE [p |-> step(p), ok |-> TRUE]

\* expect returns the pair (parser after the call, returned boolean).
expect(p, expected_type, expected_value, error_msg) ==
    LET token == current_token(p)
        error(msg) ==
            [p EXCEPT !.errors =
                Append(@, Diag(p, IF error_msg # Omitted THEN error_msg ELSE msg,
                               Token(expected_type, expected_value)))]
    IN  IF token = None
        THEN [p |-> error("Unexpected end of file"), ok |-> FALSE]
        ELSE IF expected_type # Omitted /\ token.type # expected_type
        THEN [p |-> error("Expected type {expected_type}, got {token.type}"),
              ok |-> FALSE]
        ELSE IF expected_value # Omitted /\ token.value # expected_value
        THEN [p |-> error("Expected '{expected_value}', got '{token.value}'"),
              ok |-> FALSE]
        ELSE [p |-> step(p), ok |-> TRUE]

\* The tests "token and token.type == t and token.value == v".
is(token, t, v) == token # None /\ token.type = t /\ token.value = v

is_datatype(token) ==
    token # None /\ token.type = "KEYWORD" /\ token.value \in Datatypes

\* The pc of a frame that returns what its last call returned.
TailCall == -2

\* if not self.expect(...): return False; otherwise go on as q does.
fail_or(r, q) == IF ~r.ok THEN Return(r.p, FALSE) ELSE q

cpp_parse_cpp_tokens ==
    /\ Done(np)
    /\ At(cp, "parse_cpp_tokens")
    /\ cp' = CASE Top(cp).pc = 1 ->
                    LET r == cpp_tokens_read[file.lines]
                    IN  IF ~file.exists
                        THEN Finish(cp, FALSE, <<Message("File not found: {filename}")>>)
                        ELSE IF r.raised
                        THEN Finish(cp, FALSE, <<Message("Error: {str(e)}")>>)
                        ELSE IF r.tokens = <<>>
                        THEN Finish(cp, FALSE, <<Message("No tokens found in file")>>)
                        ELSE Call(Parser(r.tokens), "parse", 553)
               [] Top(cp).pc = 553 -> Finish(cp, cp.ret, cp.errors)
    /\ UNCHANGED <<file, np>>

cpp_parse ==
    /\ At(cp, "parse")
    /\ cp' = CASE Top(cp).pc = 1 -> Call(cp, "program", 89)
               [] Top(cp).pc = 89 ->
                    IF ~cp.has_main
                    THEN Return(add_error(cp, "Missing main function"), FALSE)
                    ELSE Return(cp, Len(cp.errors) = 0)
               [] Top(cp).pc = Except ->
                    Return(add_error(cp, "Parser exception: {str(e)}"), FALSE)
    /\ UNCHANGED <<file, np>>

program ==
    /\ At(cp, "program")
    /\ LET loop(p) ==
               IF current_token(p) # None
               THEN Call(p, "global_declaration", 154)
               ELSE ReturnNone(p)
       IN  cp' = CASE Top(cp).pc = 1 -> loop(cp)
                 [] Top(cp).pc = 154 ->
                      IF ~cp.ret THEN ReturnNone(cp) ELSE loop(cp)
    /\ UNCHANGED <<file, np>>

global_declaration ==
    /\ At(cp, "global_declaration")
    /\ cp' = CASE Top(cp).pc = 1 ->
                 LET token == current_token(cp)
                     next_token == peek_token(cp, 1)
                     next_next == peek_token(cp, 2)
                 IN  IF token = None THEN Return(cp, FALSE)
                     ELSE IF ~is_datatype(token)
                     THEN Return(add_error(cp,
                            "Expected datatype for global declaration"), FALSE)
                     ELSE IF next_token = None
                     THEN Return(add_error(cp,
                            "Expected identifier after datatype"), FALSE)
                     ELSE IF next_token.type \notin {"IDENTIFIER", "KEYWORD"}
                     THEN Return(add_error(cp,
                            "Expected identifier after datatype"), FALSE)
                     ELSE IF is(next_next, SPECIAL, "(")
                     THEN Call(cp, "func", TailCall)
                     ELSE Call(cp, "global_variable", TailCall)
               [] Top(cp).pc = TailCall -> Return(cp, cp.ret)
    /\ UNCHANGED <<file, np>>

global_variable ==
    /\ At(cp, "global_variable")
    /\ LET last(p) == Return(p, TRUE)
           loop(p) ==     \* lines 136-150
               IF is(current_token(p), SPECIAL, ",")
               THEN Goto(step(p), 138)
               ELSE LET r == expect(p, SPECIAL, ";", Omitted)
                    IN  fail_or(r, last(r.p))
           init(p) ==     \* lines 131-134 and 142-145
               IF is(current_token(p), "OPERATOR", "=")
               THEN Call(step(p), "expression", 136)
               ELSE loop(p)
           to129(p) == Goto(p, 129)
           to142(p) == Goto(p, 142)
       IN  cp' = CASE Top(cp).pc = 1 -> Goto(step(cp), 126)
                 [] Top(cp).pc = 126 ->
                      LET r == expect(cp, "IDENTIFIER", Omitted, Omitted)
                      IN  fail_or(r, to129(r.p))
                 [] Top(cp).pc = 129 -> init(cp)
                 [] Top(cp).pc = 136 -> loop(cp)
                 [] Top(cp).pc = 138 ->
                      LET r == expect(cp, "IDENTIFIER", Omitted, Omitted)
                      IN  fail_or(r, to142(r.p))
                 [] Top(cp).pc = 142 -> init(cp)
    /\ UNCHANGED <<file, np>>

\* datatype returns the pair (parser after the call, returned boolean).
datatype(p) ==
    IF is_datatype(current_token(p))
    THEN [p |-> step(p), ok |-> TRUE]
    ELSE [p |-> p, ok |-> FALSE]

func ==
    /\ At(cp, "func")
    /\ LET to178(p) == Goto(p, 178)
           to_block(p) == Call(p, "block", TailCall)
       IN  cp' = CASE Top(cp).pc = 1 ->
                      IF current_token(cp) = None THEN Return(cp, FALSE)
                      ELSE IF ~datatype(cp).ok THEN Return(datatype(cp).p, FALSE)
                      ELSE Goto(datatype(cp).p, 165)
                 [] Top(cp).pc = 165 ->
                      LET token == current_token(cp)
                      IN  IF token = None
                             \/ token.type \notin {"IDENTIFIER", "KEYWORD"}
                          THEN Return(add_error(cp,
                                 "Expected function identifier"), FALSE)
                          ELSE IF token.value = "main"
                          THEN Goto([cp EXCEPT !.has_main = TRUE], 173)
                          ELSE Goto(step(cp), 175)
                 [] Top(cp).pc = 173 -> Goto(step(cp), 175)
                 [] Top(cp).pc = 175 ->
                      LET r == expect(cp, SPECIAL, "(", Omitted)
                      IN  fail_or(r, to178(r.p))
                 [] Top(cp).pc = 178 ->
                      LET r == expect(cp, SPECIAL, ")", Omitted)
                      IN  fail_or(r, to_block(r.p))
                 [] Top(cp).pc = TailCall -> Return(cp, cp.ret)
    /\ UNCHANGED <<file, np>>

(***************************************************************************)
(* cpp_parser.py: statements.                                              *)
(***************************************************************************)
block ==
    /\ At(cp, "block")
    /\ LET to195(p) == Goto(p, 195)
           loop(p) ==     \* lines 195-205
               LET token == current_token(p)
               IN  IF token = None
                   THEN Return(add_error(p, "Expected '}' to close block"), FALSE)
                   ELSE IF is(token, SPECIAL, "}")
                   THEN Return(step(p), TRUE)
                   ELSE Call(p, "x", 205)
       IN  cp' = CASE Top(cp).pc = 1 ->
                      LET r == expect(cp, SPECIAL, "{", Omitted)
                      IN  fail_or(r, to195(r.p))
                 [] Top(cp).pc = 195 -> loop(cp)
                 [] Top(cp).pc = 205 ->
                      IF ~cp.ret
                      THEN Return(add_error(cp, "Invalid statement in block"), FALSE)
                      ELSE loop(cp)
    /\ UNCHANGED <<file, np>>

\* The body of if, else, while and for: self.block() or self.x().
cpp_body(p, pc) ==
    IF is(current_token(p), SPECIAL, "{")
    THEN Call(p, "block", pc)
    ELSE Call(p, "x", pc)

x ==
    /\ At(cp, "x")
    /\ cp' = CASE Top(cp).pc = 1 ->
                 LET token == current_token(cp)
                 IN  IF token = None THEN Return(cp, FALSE)
                     ELSE IF is_datatype(token)
                     THEN IF is(peek_token(cp, 2), SPECIAL, "(")
                          THEN Call(cp, "func", TailCall)
                          ELSE Call(cp, "assign", TailCall)
                     ELSE IF is(token, "KEYWORD", "if")
                     THEN Call(cp, "if_statement", TailCall)
                     ELSE IF is(token, "KEYWORD", "while")
                     THEN Call(cp, "while_statement", TailCall)
                     ELSE IF is(token, "KEYWORD", "for")
                     THEN Call(cp, "for_statement", TailCall)
                     ELSE IF is(token, "KEYWORD", "return")
                     THEN Call(cp, "return_statement", TailCall)
                     ELSE IF token.type = "IDENTIFIER"
                     THEN IF is(peek_token(cp, 1), "OPERATOR", "=")
                          THEN Call(cp, "assign", TailCall)
                          ELSE Call(cp, "expression_statement", TailCall)
                     ELSE Return(cp, FALSE)
               [] Top(cp).pc = TailCall -> Return(cp, cp.ret)
    /\ UNCHANGED <<file, np>>

assign ==
    /\ At(cp, "assign")
    /\ LET last(p) == Return(p, TRUE)
           to260(p) == Goto(p, 260)
           to267(p) == Goto(p, 267)
           tail(p) ==     \* lines 272-279
               IF is(current_token(p), "OPERATOR", "=")
               THEN Call(step(p), "expression", 276)
               ELSE LET r == expect(p, SPECIAL, ";", Omitted)
                    IN  fail_or(r, last(r.p))
           loop(p) ==     \* lines 260-261, then 272
               IF Top(p).has_datatype /\ is(current_token(p), SPECIAL, ",")
               THEN Goto(step(p), 263)
               ELSE tail(p)
       IN  cp' = CASE Top(cp).pc = 1 ->
                      \* token.type of None: AttributeError
                      IF current_token(cp) = None THEN Raise(cp)
                      ELSE IF is_datatype(current_token(cp))
                      THEN Goto([step(cp) EXCEPT
                                   !.stack[Len(cp.stack)].has_datatype = TRUE], 255)
                      ELSE LET r == expect(cp, "IDENTIFIER", Omitted, Omitted)
                           IN  fail_or(r, to260(r.p))
                 [] Top(cp).pc = 255 ->
                      LET r == expect(cp, "IDENTIFIER", Omitted, Omitted)
                      IN  fail_or(r, to260(r.p))
                 [] Top(cp).pc = 260 -> loop(cp)
                 [] Top(cp).pc = 263 ->
                      LET r == expect(cp, "IDENTIFIER", Omitted, Omitted)
                      IN  fail_or(r, to267(r.p))
                 [] Top(cp).pc = 267 ->
                      IF is(current_token(cp), "OPERATOR", "=")
                      THEN Call(step(cp), "expression", 260)
                      ELSE loop(cp)
                 [] Top(cp).pc = 276 ->
                      LET r == expect(cp, SPECIAL, ";", Omitted)
                      IN  fail_or(r, last(r.p))
    /\ UNCHANGED <<file, np>>

expression_statement ==
    /\ At(cp, "expression_statement")
    /\ LET last(p) == Return(p, TRUE)
       IN  cp' = CASE Top(cp).pc = 1 -> Call(cp, "expression", 283)
                 [] Top(cp).pc = 283 ->
                      LET r == expect(cp, SPECIAL, ";", Omitted)
                      IN  fail_or(r, last(r.p))
    /\ UNCHANGED <<file, np>>

if_statement ==
    /\ At(cp, "if_statement")
    /\ LET to_expression(p) == Call(p, "expression", 458)
           then_branch(p) == cpp_body(p, 467)
       IN  cp' = CASE Top(cp).pc = 1 -> Goto(step(cp), 453)
                 [] Top(cp).pc = 453 ->
                      LET r == expect(cp, SPECIAL, "(", Omitted)
                      IN  fail_or(r, to_expression(r.p))
                 [] Top(cp).pc = 458 ->
                      LET r == expect(cp, SPECIAL, ")", Omitted)
                      IN  fail_or(r, then_branch(r.p))
                 [] Top(cp).pc = 467 ->
                      IF is(current_token(cp), "KEYWORD", "else")
                      THEN cpp_body(step(cp), 477)
                      ELSE Return(cp, TRUE)
                 [] Top(cp).pc = 477 -> Return(cp, TRUE)
    /\ UNCHANGED <<file, np>>

while_statement ==
    /\ At(cp, "while_statement")
    /\ LET to_expression(p) == Call(p, "expression", 487)
           to_body(p) == cpp_body(p, 496)
       IN  cp' = CASE Top(cp).pc = 1 -> Goto(step(cp), 482)
                 [] Top(cp).pc = 482 ->
                      LET r == expect(cp, SPECIAL, "(", Omitted)
                      IN  fail_or(r, to_expression(r.p))
                 [] Top(cp).pc = 487 ->
                      LET r == expect(cp, SPECIAL, ")", Omitted)
                      IN  fail_or(r, to_body(r.p))
                 [] Top(cp).pc = 496 -> Return(cp, TRUE)
    /\ UNCHANGED <<file, np>>

for_statement ==
    /\ At(cp, "for_statement")
    /\ LET init(p) ==     \* lines 504-509
               IF current_token(p) # None /\ current_token(p).type = "KEYWORD"
               THEN Call(p, "assign", 511)
               ELSE Call(p, "expression", 509)
           update(p) ==   \* lines 514-518
               LET q == expect(p, SPECIAL, ";", Omitted).p
               IN  IF current_token(q) # None /\ ~is(current_token(q), SPECIAL, ")")
                   THEN Call(q, "expression", 520)
                   ELSE Goto(q, 520)
           to_body(p) == cpp_body(p, 529)
       IN  cp' = CASE Top(cp).pc = 1 -> Goto(step(cp), 501)
                 [] Top(cp).pc = 501 ->
                      LET r == expect(cp, SPECIAL, "(", Omitted)
                      IN  fail_or(r, init(r.p))
                 [] Top(cp).pc = 509 ->
                      Goto(expect(cp, SPECIAL, ";", Omitted).p, 511)
                 [] Top(cp).pc = 511 ->
                      IF current_token(cp) # None
                         /\ ~is(current_token(cp), SPECIAL, ";")
                      THEN Call(cp, "expression", 514)
                      ELSE update(cp)
                 [] Top(cp).pc = 514 -> update(cp)
                 [] Top(cp).pc = 520 ->
                      LET r == expect(cp, SPECIAL, ")", Omitted)
                      IN  fail_or(r, to_body(r.p))
                 [] Top(cp).pc = 529 -> Return(cp, TRUE)
    /\ UNCHANGED <<file, np>>

return_statement ==
    /\ At(cp, "return_statement")
    /\ LET last(p) == Return(p, TRUE)
       IN  cp' = CASE Top(cp).pc = 1 ->
                      LET q == step(cp)
                      IN  IF current_token(q) # None
                             /\ ~is(current_token(q), SPECIAL, ";")
                          THEN Call(q, "expression", 538)
                          ELSE Goto(q, 538)
                 [] Top(cp).pc = 538 ->
                      LET r == expect(cp, SPECIAL, ";", Omitted)
                      IN  fail_or(r, last(r.p))
    /\ UNCHANGED <<file, np>>

(***************************************************************************)
(* cpp_parser.py: expressions.                                             *)
(***************************************************************************)
\* One level of the ladder: operand, then "while True" taking an operator
\* and an operand; returns True.  pc 1 is the first operand, pc 2 the loop.
cpp_binary(p, operand, operators) ==
    CASE Top(p).pc = 1 -> Call(p, operand, 2)
      [] Top(p).pc = 2 ->
           LET token == current_token(p)
           IN  IF token # None /\ token.type = "OPERATOR"
                  /\ token.value \in operators
               THEN Call(step(p), operand, 2)
               ELSE Return(p, TRUE)

expression ==
    /\ At(cp, "expression")
    /\ cp' = CASE Top(cp).pc = 1 -> Call(cp, "logical_or_expr", TailCall)
               [] Top(cp).pc = TailCall -> Return(cp, cp.ret)
    /\ UNCHANGED <<file, np>>

logical_or_expr ==
    /\ At(cp, "logical_or_expr")
    /\ cp' = cpp_binary(cp, "logical_and_expr", {"||"})
    /\ UNCHANGED <<file, np>>

logical_and_expr ==
    /\ At(cp, "logical_and_expr")
    /\ cp' = cpp_binary(cp, "equality_expr", {"&&"})
    /\ UNCHANGED <<file, np>>

equality_expr ==
    /\ At(cp, "equality_expr")
    /\ cp' = cpp_binary(cp, "relational_expr", {"==", "!="})
    /\ UNCHANGED <<file, np>>

relational_expr ==
    /\ At(cp, "relational_expr")
    /\ cp' = cpp_binary(cp, "additive_expr", {"<", ">", "<=", ">="})
    /\ UNCHANGED <<file, np>>

additive_expr ==
    /\ At(cp, "additive_expr")
    /\ cp' = cpp_binary(cp, "multiplicative_expr", {"+", "-"})
    /\ UNCHANGED <<file, np>>

multiplicative_expr ==
    /\ At(cp, "multiplicative_expr")
    /\ cp' = cpp_binary(cp, "unary_expr", {"*", "/", "%"})
    /\ UNCHANGED <<file, np>>

unary_expr ==
    /\ At(cp, "unary_expr")
    /\ cp' = CASE Top(cp).pc = 1 ->
                    LET token == current_token(cp)
                    IN  IF token # None /\ token.type = "OPERATOR"
                           /\ token.value \in {"+", "-", "++", "--", "!"}
                        THEN Call(step(cp), "unary_expr", TailCall)
                        ELSE Call(cp, "postfix_expr", TailCall)
               [] Top(cp).pc = TailCall -> Return(cp, cp.ret)
    /\ UNCHANGED <<file, np>>

postfix_expr ==
    /\ At(cp, "postfix_expr")
    /\ cp' = CASE Top(cp).pc = 1 -> Call(cp, "primary_expr", 380)
               [] Top(cp).pc = 380 ->
                    LET token == current_token(cp)
                    IN  IF token = None THEN Return(cp, TRUE)
                        ELSE IF is(token, SPECIAL, "[")
                        THEN Call(step(cp), "expression", 388)
                        ELSE IF is(token, SPECIAL, "(")
                        THEN Call(step(cp), "argument_list", 393)
                        ELSE IF token.type = "OPERATOR"
                                /\ token.value \in {"++", "--"}
                        THEN Goto(step(cp), 380)
                        ELSE Return(cp, TRUE)
               [] Top(cp).pc = 388 ->
                    Goto(expect(cp, SPECIAL, "]", Omitted).p, 380)
               [] Top(cp).pc = 393 ->
                    Goto(expect(cp, SPECIAL, ")", Omitted).p, 380)
    /\ UNCHANGED <<file, np>>

argument_list ==
    /\ At(cp, "argument_list")
    /\ cp' = CASE Top(cp).pc = 1 ->
                    IF is(current_token(cp), SPECIAL, ")")
                    THEN Return(cp, TRUE)
                    ELSE Call(cp, "expression", 411)
               [] Top(cp).pc = 411 ->
                    IF is(current_token(cp), SPECIAL, ",")
                    THEN Call(step(cp), "expression", 411)
                    ELSE Return(cp, TRUE)
    /\ UNCHANGED <<file, np>>

primary_expr ==
    /\ At(cp, "primary_expr")
    /\ LET last(p) == Return(p, TRUE)
       IN  cp' = CASE Top(cp).pc = 1 ->
                   LET token == current_token(cp)
                   IN  IF token = None
                       THEN Return(add_error(cp,
                              "Unexpected end of file in expression"), FALSE)
                       ELSE IF token.type \in {"IDENTIFIER", "NUMBER", "STRING"}
                       THEN Return(step(cp), TRUE)
                       ELSE IF is(token, SPECIAL, "(")
                       THEN Call(step(cp), "expression", 443)
                       ELSE Return(add_error(cp,
                              "Unexpected token in expression: {token.type} '{token.value}'"),
                              FALSE)
                 [] Top(cp).pc = 443 ->
                      LET r == expect(cp, SPECIAL, ")", Omitted)
                      IN  fail_or(r, last(r.p))
    /\ UNCHANGED <<file, np>>

(***************************************************************************)
(* The specification.                                                      *)
(***************************************************************************)
Init ==
    /\ file = [exists |-> FALSE, lines |-> <<>>]
    /\ np = Parser(<<>>)
    /\ cp = Parser(<<>>)

\* The environment writes the token file before the first run opens it.
write_file ==
    /\ ~file.exists
    /\ np = Parser(<<>>)
    /\ file' \in {[exists |-> TRUE, lines |-> f] : f \in Files}
    /\ UNCHANGED <<np, cp>>

Next ==
    \/ write_file
    \/ parse_cpp_tokens
    \/ parse
    \/ parse_global_declaration
    \/ parse_global_variable
    \/ parse_function
    \/ parse_block
    \/ parse_statement
    \/ parse_assignment
    \/ parse_if_statement
    \/ parse_while_statement
    \/ parse_for_statement
    \/ parse_return_statement
    \/ parse_expression
    \/ parse_logical_or
    \/ parse_logical_and
    \/ parse_equality
    \/ parse_relational
    \/ parse_additive
    \/ parse_multiplicative
    \/ parse_unary
    \/ parse_postfix
    \/ parse_argument_list
    \/ parse_primary
    \/ cpp_parse_cpp_tokens
    \/ cpp_parse
    \/ program
    \/ global_declaration
    \/ global_variable
    \/ func
    \/ block
    \/ x
    \/ assign
    \/ expression_statement
    \/ if_statement
    \/ while_statement
    \/ for_statement
    \/ return_statement
    \/ expression
    \/ logical_or_expr
    \/ logical_and_expr
    \/ equality_expr
    \/ relational_expr
    \/ additive_expr
    \/ multiplicative_expr
    \/ unary_expr
    \/ postfix_expr
    \/ argument_list
    \/ primary_expr

Spec == Init /\ [][Next]_vars

\* Every enabled step is eventually taken: the interpreter runs the program.
FairSpec == Spec /\ WF_vars(Next)

(***************************************************************************)
(* Properties.                                                             *)
(***************************************************************************)
\* Parser.parse has just returned to parse_cpp_tokens; ret is what it returned.
Returned(p, pc) == At(p, "parse_cpp_tokens") /\ Top(p).pc = pc

NewReturned == Returned(np, 409)

CppReturned == Returned(cp, 553)

Msgs(errors) == {errors[i].msg : i \in 1..Len(errors)}

\* C1: in both implementations parse() returns True exactly when, as it
\* returns, the diagnostic list is empty and has_main is True; the returns
\* through the exception handler included.
C1_TrueIffNoErrorsAndMain ==
    /\ NewReturned => (np.ret <=> (np.errors = <<>> /\ np.has_main))
    /\ CppReturned => (cp.ret <=> (cp.errors = <<>> /\ cp.has_main))

\* Both parsers have returned True for the same file.
C1_Witness == CppReturned /\ cp.ret /\ np.out.is_valid

\* A return through the handler of each parser.
C1_HandlerWitness ==
    /\ CppReturned
    /\ "Parser exception: {str(e)}" \in Msgs(cp.errors)
    /\ "Parser exception: {str(e)}" \in Msgs(np.out.errors)

\* C2: for every finite token stream, garbage included, both parsers
\* terminate: every run of the interpreter reaches the return of
\* parse_cpp_tokens in new_parse.py and then in cpp_parser.py.
C2_Terminates == <>(Done(np) /\ Done(cp))

\* Both runs are over, on a stream that neither parser accepts.
C2_Witness ==
    /\ Done(np) /\ Done(cp)
    /\ Len(np.out.errors) > 2 /\ Len(cp.out.errors) > 1

WithMainFiles == {Render(s) : s \in WithMain}

NoMainFiles == {Render(s) : s \in NoMain}

\* C3: on every stream derivable from the grammar that has a function named
\* main, new_parse.py's parse() returns True with no diagnostic.
C3_WellFormedWithMainAccepted ==
    (NewReturned /\ file.lines \in WithMainFiles)
        => (np.ret /\ np.errors = <<>>)

\* C4: on every stream derivable from the grammar that has no function named
\* main, new_parse.py's parse() returns False with exactly one diagnostic,
\* the missing-main one, appended when the whole stream has been consumed.
C4_WellFormedNoMainOneDiagnostic ==
    (NewReturned /\ file.lines \in NoMainFiles)
        => /\ ~np.ret
           /\ Len(np.errors) = 1
           /\ np.errors[1].msg = "Missing main function"
           /\ np.errors[1].at = Len(np.tokens)

\* The number of braces that tokens leaves open.
RECURSIVE open_braces(_)
open_braces(ls) ==
    IF ls = <<>> THEN 0
    ELSE open_braces(Tail(ls))
         + (IF Head(ls) = "{" THEN 1 ELSE IF Head(ls) = "}" THEN -1 ELSE 0)

\* The well-formed programs cut short inside a block.
OpenFiles == {Render(s) : s \in {c \in Prefixes : open_braces(c) > 0}}

\* C5: when the stream ends while a block is open, parse() returns False and
\* the diagnostics hold "Expected '}' to close block", in both
\* implementations.
C5_UnclosedBlockReported ==
    /\ (NewReturned /\ file.lines \in OpenFiles)
           => (~np.ret /\ "Expected '}' to close block" \in Msgs(np.errors))
    /\ (CppReturned /\ file.lines \in OpenFiles)
           => (~cp.ret /\ "Expected '}' to close block" \in Msgs(cp.errors))

\* The run p has not started: the state Parser.__init__ is yet to replace.
Fresh(p) == p = Parser(<<>>)

\* C6: has_main starts False, is never set back to False during a parse, and
\* becomes True exactly in the step of parse_function / func that looks at a
\* name token whose lexeme is main, before that token (and so the parameter
\* list and the body) is consumed; when has_main is True the diagnostics do
\* not hold the missing-main one.
C6_HasMainMonotone ==
    [][/\ Fresh(np) => ~np'.has_main
       /\ Fresh(cp) => ~cp'.has_main
       /\ np.has_main => np'.has_main
       /\ cp.has_main => cp'.has_main
       /\ (~np.has_main /\ np'.has_main)
              => /\ At(np, "parse_function") /\ Top(np).pc = 132
                 /\ current(np).value = "main"
                 /\ np'.pos = np.pos
       /\ (~cp.has_main /\ cp'.has_main)
              => /\ At(cp, "func") /\ Top(cp).pc = 165
                 /\ current_token(cp).value = "main"
                 /\ cp'.pos = cp.pos
       /\ (At(np, "parse_function") /\ Top(np).pc = 132
              /\ current(np).value = "main") => np'.has_main
       /\ (At(cp, "func") /\ Top(cp).pc = 165
              /\ current_token(cp).type \in {"IDENTIFIER", "KEYWORD"}
              /\ current_token(cp).value = "main") => cp'.has_main
       /\ np'.has_main => "Missing main function" \notin Msgs(np'.errors)
       /\ cp'.has_main => "Missing main function" \notin Msgs(cp'.errors)]_vars

\* Both parsers have returned False with has_main True: main was seen and
\* diagnostics were raised after it.
C6_Witness ==
    /\ CppReturned /\ cp.has_main /\ np.has_main
    /\ cp.errors # <<>> /\ np.errors # <<>>
    /\ \E i \in 1..Len(np.tokens) : np.tokens[i].value = "main"
    /\ ~cp.ret /\ ~np.out.is_valid

\* A line of the shape <KIND, LEXEME>, or a blank one.
shaped(line) ==
    \/ strip(line) = <<>>
    \/ /\ startswith(strip(line), "<") /\ endswith(strip(line), ">")
       /\ \E i \in 1..Len(line) : line[i] = ","

\* The file without its lines of another shape.
RECURSIVE without_malformed(_)
without_malformed(lines) ==
    IF lines = <<>> THEN <<>>
    ELSE (IF shaped(Head(lines)) THEN <<Head(lines)>> ELSE <<>>)
         \o without_malformed(Tail(lines))

\* C7: both readers skip a line that is not of the shape <KIND, LEXEME>:
\* reading raises nothing, and the tokens the run parses are those of the
\* file without such lines.
C7_MalformedLinesSkipped ==
    /\ (file.exists /\ ~Fresh(np))
           => /\ ~tokens_read[file.lines].raised
              /\ "Error: {str(e)}" \notin Msgs(np.out.errors)
              /\ np.tokens = tokens_read[without_malformed(file.lines)].tokens
    /\ (file.exists /\ ~Fresh(cp))
           => /\ ~cpp_tokens_read[file.lines].raised
              /\ "Error: {str(e)}" \notin Msgs(cp.out.errors)
              /\ cp.tokens = cpp_tokens_read[without_malformed(file.lines)].tokens

\* C8: the cursor of each parser stays within 0..N, N the number of tokens.
C8_CursorInRange ==
    /\ 0 <= np.pos /\ np.pos <= Len(np.tokens)
    /\ 0 <= cp.pos /\ cp.pos <= Len(cp.tokens)

\* Each parser has advanced to the end of a stream of some length.
C8_Witness ==
    /\ np.pos = Len(np.tokens) /\ Len(np.tokens) > 3
    /\ cp.pos = Len(cp.tokens) /\ Len(cp.tokens) > 3

\* The filters and messages consume and expect are tried with.
FilterTypes == {Omitted, "IDENTIFIER", "KEYWORD", SPECIAL}

FilterValues == {Omitted, ";", "main", "{"}

FilterMessages == {Omitted, "Expected '}' to close block"}

\* The current token of p exists and satisfies the filters.
satisfies(p, token_type, value) ==
    /\ p.pos < Len(p.tokens)
    /\ token_type = Omitted \/ p.tokens[p.pos + 1].type = token_type
    /\ value = Omitted \/ p.tokens[p.pos + 1].value = value

\* r is one of the two outcomes of the consuming primitive called in p.
two_outcomes(p, r, token_type, value) ==
    /\ IF satisfies(p, token_type, value)
       THEN r.ok /\ r.p.pos = p.pos + 1 /\ r.p.errors = p.errors
       ELSE /\ ~r.ok /\ r.p.pos = p.pos
            /\ Len(r.p.errors) = Len(p.errors) + 1
            /\ SubSeq(r.p.errors, 1, Len(p.errors)) = p.errors
    /\ r.p.has_main = p.has_main
    /\ r.p.tokens = p.tokens

\* C9: in every state and for every filter, consume (new_parse.py) and
\* expect (cpp_parser.py) either advance by one, append nothing and return
\* True (the current token satisfies the filters), or leave the cursor,
\* append one diagnostic and return False; has_main and the tokens stay.
C9_ConsumeTwoOutcomes ==
    \A t \in FilterTypes, v \in FilterValues, m \in FilterMessages :
        /\ two_outcomes(np, consume(np, t, v, m), t, v)
        /\ two_outcomes(cp, expect(cp, t, v, m), t, v)

\* consume has failed with the stream exhausted and expect on a mismatch,
\* and both have succeeded before.
C9_Witness ==
    /\ Done(np) /\ np.pos > 0 /\ cp.pos > 0
    /\ \E i \in 1..Len(np.errors) :
          np.errors[i].want # NoWant /\ np.errors[i].tok = None
    /\ \E i \in 1..Len(cp.errors) :
          cp.errors[i].want # NoWant /\ cp.errors[i].tok # None

\* The step appends one diagnostic to np.errors.
Reports(msgs) ==
    /\ Len(np'.errors) = Len(np.errors) + 1
    /\ np'.errors[Len(np'.errors)].msg \in msgs

FallbackMessages ==
    {"Invalid statement starting with {tok.type} '{tok.value}'",
     "Expected datatype for global declaration"}

PrimaryMessage == "Unexpected token in expression: {tok.type} '{tok.value}'"

\* Every step of new_parse.py that appends a diagnostic appends one.
OneAtATime ==
    np'.errors # np.errors
        => /\ Len(np'.errors) = Len(np.errors) + 1
           /\ SubSeq(np'.errors, 1, Len(np.errors)) = np.errors

\* C10 as claimed: in new_parse.py the statement fallback and the top-level
\* loop advance by one past the token they report, and every other step
\* that records a diagnostic, parse_primary's included, leaves the cursor.
C10_OnlyFallbacksSkip ==
    [][/\ OneAtATime
       /\ Reports(FallbackMessages) => np'.pos = np.pos + 1
       /\ (np'.errors # np.errors /\ ~Reports(FallbackMessages))
              => np'.pos = np.pos]_vars

\* C10 amended: the statement fallback, the top-level loop and the fallback
\* of parse_primary advance by one past the token they report, and every
\* other step that records a diagnostic leaves the cursor where it was.
C10_FallbacksAndPrimarySkip ==
    [][/\ OneAtATime
       /\ Reports(FallbackMessages \cup {PrimaryMessage}) => np'.pos = np.pos + 1
       /\ (np'.errors # np.errors
              /\ ~Reports(FallbackMessages \cup {PrimaryMessage}))
              => np'.pos = np.pos]_vars

\* parse_primary has just reported a token and moved past it, after a
\* consume that reported one and left the cursor in place.
C10_Witness ==
    /\ np.errors # <<>>
    /\ np.errors[Len(np.errors)].msg = PrimaryMessage
    /\ np.pos = np.errors[Len(np.errors)].at + 1
    /\ \E i \in 1..Len(np.errors) : np.errors[i].want # NoWant

OddNameFiles == {Render(s) : s \in OddNames}

\* C11: in new_parse.py a function-shaped construct whose name token is
\* neither an IDENTIFIER nor a KEYWORD makes parse() record a diagnostic and
\* return False.
C11_OddFunctionNameRejected ==
    (NewReturned /\ file.lines \in OddNameFiles)
        => (~np.ret /\ np.errors # <<>>)

\* The files that hold a sequence of Decl, at top level or inside a block.
DeclFiles ==
    {Render(d \o Function("main", <<>>)) : d \in Decl}
    \cup {Render(Function("main", d)) : d \in Decl}

\* The files that hold a sequence that is not of that shape, in either place.
NotDeclFiles ==
    {Render(d \o Function("main", <<>>)) : d \in NotDecl}
    \cup {Render(Function("main", d)) : d \in NotDecl}

\* C12: new_parse.py accepts a sequence that starts with a datatype inside
\* a block exactly when it accepts it at top level: in both places the
\* sequences of the one shape of Decl are accepted without a diagnostic and
\* no other sequence is.
C12_OneDeclarationShape ==
    /\ (NewReturned /\ file.lines \in DeclFiles)
           => (np.ret /\ np.errors = <<>>)
    /\ (NewReturned /\ file.lines \in NotDeclFiles)
           => ~(np.ret /\ np.errors = <<>>)

ForFiles == {Render(Function("main", f)) : f \in ForStmt}

\* C13: in each implementation a for statement whose init is empty, a
\* declaration or an expression, whose condition is empty or an expression
\* and whose update is empty or an expression, with a valid body, is parsed
\* without a diagnostic.
C13_ForClausesMayBeEmpty ==
    /\ (NewReturned /\ file.lines \in ForFiles) => np.errors = <<>>
    /\ (CppReturned /\ file.lines \in ForFiles) => cp.errors = <<>>

BodyLessFiles == {Render(s) : s \in BodyLess}

\* C14: in cpp_parser.py, when the token in the body position of an if,
\* else, while or for is neither '{' nor the start of a statement, at least
\* one diagnostic is recorded and parse() returns False.
C14_MissingBodyReported ==
    (CppReturned /\ file.lines \in BodyLessFiles) => (~cp.ret /\ cp.errors # <<>>)

\* C15: for every token stream, Parser.parse() of cpp_parser.py and
\* Parser.parse() of new_parse.py return the same boolean.
C15_SameVerdict ==
    (CppReturned /\ np.tokens = cp.tokens) => cp.ret = np.ret

IsPrefix(s, t) == Len(s) <= Len(t) /\ SubSeq(t, 1, Len(s)) = s

\* The cursor positions of the diagnostics of a list, in the order of the list.
NonDecreasing(errors) ==
    \A i, j \in 1..Len(errors) : i <= j => errors[i].at <= errors[j].at

ForwardPass(p, q) ==
    /\ q.pos >= p.pos
    /\ IsPrefix(p.errors, q.errors)
    /\ NonDecreasing(q.errors)

\* C16: in both implementations no step decreases the cursor, every step
\* leaves the diagnostics already recorded in place and only appends at the
\* end of the list, and the cursor positions of the recorded diagnostics are
\* in non-decreasing order.
C16_SingleForwardPass ==
    [][ForwardPass(np, np') /\ ForwardPass(cp, cp')]_vars

C16_Witness ==
    /\ CppReturned
    /\ \E i \in 1..Len(np.errors) - 1 :
           /\ np.errors[i].at < np.errors[i + 1].at
           /\ np.errors[i].msg # np.errors[i + 1].msg
    /\ \E i \in 1..Len(cp.errors) - 1 :
           /\ cp.errors[i].at < cp.errors[i + 1].at
           /\ cp.errors[i].msg # cp.errors[i + 1].msg
    /\ np.pos > np.errors[Len(np.errors)].at
    /\ cp.pos > cp.errors[Len(cp.errors)].at

\* C17: in both implementations, whenever parse() returns True the cursor
\* equals the number of tokens.
C17_AcceptedMeansAllConsumed ==
    /\ (NewReturned /\ np.ret) => np.pos = Len(np.tokens)
    /\ (CppReturned /\ cp.ret) => cp.pos = Len(cp.tokens)

\* Both parsers returned True on a stream whose main function is not its
\* first declaration, so the top-level loop ran more than once.
C17_Witness ==
    /\ CppReturned
    /\ cp.ret /\ np.ret
    /\ np.pos = Len(np.tokens) /\ cp.pos = Len(cp.tokens)
    /\ \E i \in 3..Len(cp.tokens) : cp.tokens[i].value = "main"

====
